---- MODULE Spec2Model ----
(***************************************************************************)
(* The <fes:ResourceId> identifier node of gisserver/parsers/fes20/        *)
(* identifiers.py: construction (dataclass __init__ and from_xml), the     *)
(* memoized split of rid (_rid_parts), the type_name and id properties and *)
(* build_query.                                                            *)
(*                                                                         *)
(* Python strings are modelled as sequences of one-character strings, so   *)
(* that splitting and parsing are computed character by character.  Every  *)
(* Python value is a record with a "kind" field, every outcome of a call   *)
(* is either a value record or [kind |-> "raise", exc |-> <class name>].   *)
(***************************************************************************)
EXTENDS Integers, Sequences, FiniteSets

\* ------------------------------------------------------------------ bounds

\* Longest rid string that is enumerated.
MaxLen == 4

\* Number of build_query outcomes that are recorded per node.
MaxCalls == 2

\* Longest rid string of the two nodes that are compared with each other.
MaxPairLen == 3

\* ----------------------------------------------------------------- strings

Chars == {"a", "b", "."}

RECURSIVE StrUpTo(_)
StrUpTo(k) ==
  IF k = 0 THEN {<<>>}
  ELSE LET shorter == StrUpTo(k - 1)
       IN  shorter \cup {Append(s, c) : s \in {t \in shorter : Len(t) = k - 1}, c \in Chars}

Rids == StrUpTo(MaxLen)

PairRids == StrUpTo(MaxPairLen)

Raise(exc) == [kind |-> "raise", exc |-> exc]

IsRaise(r) == r.kind = "raise"

\* ------------------------------------------------------------ Python values

None == [kind |-> "None"]

PyInt(i) == [kind |-> "int", i |-> i]

\* A float literal is kept as its digits: mantissa / 10^scale.
PyFloat(mantissa, scale) == [kind |-> "float", mantissa |-> mantissa, scale |-> scale]

PyBool(b) == [kind |-> "bool", b |-> b]

PyStr(s) == [kind |-> "str", s |-> s]

VersionActionTokens == {"FIRST", "LAST", "ALL", "NEXT", "PREVIOUS"}

Token(name) == [kind |-> "VersionActionTokens", name |-> name]

\* Python truth value testing, as used by `if version:` and by
\* `if self.startTime or self.endTime or self.version:`.
Truthy(v) ==
  CASE v.kind = "None" -> FALSE
    [] v.kind = "int" -> v.i # 0
    [] v.kind = "float" -> v.mantissa # 0
    [] v.kind = "bool" -> v.b
    [] v.kind = "str" -> v.s # <<>>
    [] v.kind = "datetime" -> TRUE
    [] v.kind = "VersionActionTokens" -> TRUE

\* ------------------------------------------------------------ str.rsplit

RECURSIVE rfind(_, _)
\* Highest index i <= from with s[i] = ".", or 0 when there is none.
rfind(s, from) ==
  IF from = 0 THEN 0
  ELSE IF s[from] = "." THEN from
  ELSE rfind(s, from - 1)

RECURSIVE find(_, _)
find(s, from) ==
  IF from > Len(s) THEN 0
  ELSE IF s[from] = "." THEN from
  ELSE find(s, from + 1)

\* str.split(".", 1): the split at the first separator.
split_first(s) ==
  LET i == find(s, 1)
  IN  IF i = 0 THEN <<s>>
      ELSE <<SubSeq(s, 1, i - 1), SubSeq(s, i + 1, Len(s))>>

\* rid.split(".", 1) in the place of rid.rsplit(".", 1).
split_at_first_dot(s) == split_first(s)

\* rid.rsplit(".", 1): at most one split, at the last separator; the list
\* has one element when the separator does not occur.
rsplit(s) ==
  LET i == rfind(s, Len(s))
  IN  IF i = 0 THEN <<s>>
      ELSE <<SubSeq(s, 1, i - 1), SubSeq(s, i + 1, Len(s))>>

\* ------------------------------------------- gisserver.parsers.utils helpers

Digits == <<"0", "1", "2", "3", "4", "5", "6", "7", "8", "9">>

IsDigit(c) == \E i \in 1..Len(Digits) : Digits[i] = c

DigitVal(c) == (CHOOSE i \in 1..Len(Digits) : Digits[i] = c) - 1

AllDigits(s) == \A i \in 1..Len(s) : IsDigit(s[i])

RECURSIVE DecVal(_)
\* Value of a string of decimal digits.
DecVal(s) ==
  IF s = <<>> THEN 0
  ELSE 10 * DecVal(SubSeq(s, 1, Len(s) - 1)) + DigitVal(s[Len(s)])

Unsigned(s) == IF s # <<>> /\ s[1] = "-" THEN Tail(s) ELSE s

Sign(s) == IF s # <<>> /\ s[1] = "-" THEN -1 ELSE 1

IsIntLiteral(s) == Unsigned(s) # <<>> /\ AllDigits(Unsigned(s))

IsFloatLiteral(s) ==
  LET u == Unsigned(s)
      parts == split_first(u)
  IN  /\ Len(parts) = 2
      /\ AllDigits(parts[1])
      /\ AllDigits(parts[2])
      /\ parts[1] \o parts[2] # <<>>

StrTrue == <<"t", "r", "u", "e">>

StrFalse == <<"f", "a", "l", "s", "e">>

\* auto_cast(value): integer, then float, then boolean literal, else the
\* string itself.  It never raises.
auto_cast(s) ==
  IF IsIntLiteral(s) THEN PyInt(Sign(s) * DecVal(Unsigned(s)))
  ELSE IF IsFloatLiteral(s)
    THEN LET parts == split_first(Unsigned(s))
         IN  PyFloat(Sign(s) * DecVal(parts[1] \o parts[2]), Len(parts[2]))
  ELSE IF s = StrTrue THEN PyBool(TRUE)
  ELSE IF s = StrFalse THEN PyBool(FALSE)
  ELSE PyStr(s)

\* An XML attribute is absent or carries a string.
Absent == [kind |-> "absent"]

Attr(s) == [kind |-> "attr", s |-> s]

\* element.get(name): None when the attribute is absent.
ElementGet(element, name) ==
  IF element[name].kind = "absent" THEN None ELSE PyStr(element[name].s)

\* get_attribute(element, name): the attribute's string, or the
\* missing-attribute error.
get_attribute(element, name) ==
  IF element[name].kind = "absent" THEN Raise("MissingAttributeError")
  ELSE PyStr(element[name].s)

TwoDigits(s, i) == 10 * DigitVal(s[i]) + DigitVal(s[i + 1])

\* The strict shape YYYY-MM-DDTHH:MM:SSZ with every field in range.
IsIsoDatetime(s) ==
  /\ Len(s) = 20
  /\ \A i \in {1, 2, 3, 4, 6, 7, 9, 10, 12, 13, 15, 16, 18, 19} : IsDigit(s[i])
  /\ s[5] = "-" /\ s[8] = "-" /\ s[11] = "T"
  /\ s[14] = ":" /\ s[17] = ":" /\ s[20] = "Z"
  /\ TwoDigits(s, 6) \in 1..12
  /\ TwoDigits(s, 9) \in 1..31
  /\ TwoDigits(s, 12) \in 0..23
  /\ TwoDigits(s, 15) \in 0..59
  /\ TwoDigits(s, 18) \in 0..59

\* parse_iso_datetime(value): the timestamp, or the malformed-value error.
parse_iso_datetime(s) ==
  IF IsIsoDatetime(s)
    THEN [kind |-> "datetime",
          year |-> DecVal(SubSeq(s, 1, 4)), month |-> TwoDigits(s, 6),
          day |-> TwoDigits(s, 9), hour |-> TwoDigits(s, 12),
          minute |-> TwoDigits(s, 15), second |-> TwoDigits(s, 18)]
  ELSE Raise("MalformedValueError")

\* ------------------------------------------------------------------ inputs

IsoStr ==
  <<"2", "0", "2", "0", "-", "0", "1", "-", "0", "1", "T",
    "0", "0", ":", "0", "0", ":", "0", "0", "Z">>

NotADateStr == <<"n", "o", "t", "-", "a", "-", "d", "a", "t", "e">>

\* Version attribute strings: empty, integers, floats, booleans, a token name.
VersionStrs ==
  { <<>>, <<"0">>, <<"7">>, <<"0", ".", "0">>, <<"1", ".", "5">>,
    StrFalse, StrTrue, <<"L", "A", "S", "T">> }

TimeStrs == {<<>>, IsoStr, NotADateStr}

\* The XML elements handed to from_xml.
Elements ==
  [ kind : {"element"},
    rid : {Absent} \cup {Attr(s) : s \in Rids},
    version : {Absent} \cup {Attr(s) : s \in VersionStrs},
    startTime : {Absent} \cup {Attr(s) : s \in TimeStrs},
    endTime : {Absent} \cup {Attr(s) : s \in TimeStrs} ]

\* Values of the declared type of ResourceId.version given to __init__:
\* Union[int, datetime, VersionActionTokens, NoneType].
VersionSpecs ==
  {None, PyInt(0), PyInt(1), parse_iso_datetime(IsoStr)}
    \cup {Token(t) : t \in VersionActionTokens}

\* Values of the declared type Optional[datetime].
OptTimes == {None, parse_iso_datetime(IsoStr)}

\* The fesquery argument of build_query: two distinct compiler contexts.
FesQueries == {"q1", "q2"}

\* The instances that exist side by side.
Insts == {1, 2}

\* ------------------------------------------------------------------- state

VARIABLES
  element,        \* element[n]: the XML element from_xml was called with
  ctor,           \* ctor[n]: how instance n was constructed, and the outcome
  node,           \* node[n]: the dataclass fields of instance n
  cache,          \* cache[n]: the "_rid_parts" entry of the instance __dict__
  got_type_name,  \* got_type_name[n]: what the last read of type_name gave
  got_id,         \* got_id[n]: what the last read of id gave
  built,          \* built[n]: the outcomes of the build_query calls, in order
  fesq            \* fesq[n]: the fesquery argument of the last build_query

vars == <<element, ctor, node, cache, got_type_name, got_id, built, fesq>>

NoElement == [kind |-> "no element"]

NotConstructed == [kind |-> "not constructed"]

Constructed(how) == [kind |-> "constructed", how |-> how]

NoNode == [kind |-> "no node"]

NotCached == [kind |-> "not cached"]

Cached(parts) == [kind |-> "list", parts |-> parts]

Unread == [kind |-> "unread"]

\* The dataclass fields of ResourceId.
ResourceId(rid, version, startTime, endTime) ==
  [kind |-> "ResourceId", rid |-> rid, version |-> version,
   startTime |-> startTime, endTime |-> endTime]

\* django.db.models.Q(pk=value).
Q(pk) == [kind |-> "Q", pk |-> pk]

Exists(n) == node[n].kind = "ResourceId"

Init ==
  /\ element = [n \in Insts |-> NoElement]
  /\ ctor = [n \in Insts |-> NotConstructed]
  /\ node = [n \in Insts |-> NoNode]
  /\ cache = [n \in Insts |-> NotCached]
  /\ got_type_name = [n \in Insts |-> Unread]
  /\ got_id = [n \in Insts |-> Unread]
  /\ built = [n \in Insts |-> <<>>]
  /\ fesq = [n \in Insts |-> "none"]

\* ------------------------------------------------------------ construction

\* ResourceId(rid, version, startTime, endTime): the dataclass __init__.
new(n, rid, version, startTime, endTime) ==
  /\ ctor[n] = NotConstructed
  /\ ctor' = [ctor EXCEPT ![n] = Constructed("__init__")]
  /\ node' = [node EXCEPT ![n] = ResourceId(rid, version, startTime, endTime)]
  /\ UNCHANGED <<element, cache, got_type_name, got_id, built, fesq>>

\* `parse_iso_datetime(x) if x else None` on element.get(name).
OptionalTime(el, name) ==
  IF Truthy(ElementGet(el, name)) THEN parse_iso_datetime(el[name].s) ELSE None

\* The version local of from_xml after `if version: version = auto_cast(version)`.
CastVersion(el) ==
  IF Truthy(ElementGet(el, "version")) THEN auto_cast(el.version.s)
  ELSE ElementGet(el, "version")

\* from_xml with the timestamps parsed before rid is read.
from_xml_times_first(el) ==
  LET rid == get_attribute(el, "rid")
      startTime == OptionalTime(el, "startTime")
      endTime == OptionalTime(el, "endTime")
  IN  IF IsRaise(startTime) THEN startTime
      ELSE IF IsRaise(endTime) THEN endTime
      ELSE IF IsRaise(rid) THEN rid
      ELSE ResourceId(rid.s, CastVersion(el), startTime, endTime)

\* What ResourceId.from_xml(element) returns or raises.  The keyword
\* arguments of cls(...) are evaluated in the order written: rid, version,
\* startTime, endTime; the first one that raises ends the call.
from_xml_result(el) ==
  LET rid == get_attribute(el, "rid")
      startTime == OptionalTime(el, "startTime")
      endTime == OptionalTime(el, "endTime")
  IN  IF IsRaise(rid) THEN rid
      ELSE IF IsRaise(startTime) THEN startTime
      ELSE IF IsRaise(endTime) THEN endTime
      ELSE ResourceId(rid.s, CastVersion(el), startTime, endTime)

from_xml(n, el) ==
  /\ ctor[n] = NotConstructed
  /\ element' = [element EXCEPT ![n] = el]
  /\ LET r == from_xml_result(el)
     IN  IF IsRaise(r)
           THEN /\ ctor' = [ctor EXCEPT ![n] = r]
                /\ UNCHANGED node
           ELSE /\ ctor' = [ctor EXCEPT ![n] = Constructed("from_xml")]
                /\ node' = [node EXCEPT ![n] = r]
  /\ UNCHANGED <<cache, got_type_name, got_id, built, fesq>>

\* ------------------------------------------------- _rid_parts, type_name, id

\* The value of self._rid_parts: the entry of the instance __dict__ when
\* the cached_property has run before, else self.rid.rsplit(".", 1).
rid_parts(n) ==
  IF cache[n].kind = "list" THEN cache[n].parts ELSE rsplit(node[n].rid)

\* A memo that keeps the unsplit rid instead of the list of parts.
rid_parts_store_unsplit(n) ==
  IF cache[n].kind = "list" THEN cache[n] ELSE Cached(<<node[n].rid>>)

\* The "_rid_parts" entry of the instance __dict__ after self._rid_parts
\* was evaluated: cached_property stores what it returned.
rid_parts_store(n) == Cached(rid_parts(n))

\* self._rid_parts[0]
type_name(n) == PyStr(rid_parts(n)[1])

\* The other element of the list: self._rid_parts[0].
id_first_part(n) == PyStr(rid_parts(n)[1])

\* self._rid_parts[1]; a list of one element has no index 1.
id(n) ==
  IF Len(rid_parts(n)) >= 2 THEN PyStr(rid_parts(n)[2]) ELSE Raise("IndexError")

read_type_name(n) ==
  /\ Exists(n)
  /\ got_type_name' = [got_type_name EXCEPT ![n] = type_name(n)]
  /\ cache' = [cache EXCEPT ![n] = rid_parts_store(n)]
  /\ UNCHANGED <<element, ctor, node, got_id, built, fesq>>

read_id(n) ==
  /\ Exists(n)
  /\ got_id' = [got_id EXCEPT ![n] = id(n)]
  /\ cache' = [cache EXCEPT ![n] = rid_parts_store(n)]
  /\ UNCHANGED <<element, ctor, node, got_type_name, built, fesq>>

\* -------------------------------------------------------------- build_query

\* `self.startTime or self.endTime or self.version`
HasQualifier(n) ==
  \/ Truthy(node[n].startTime)
  \/ Truthy(node[n].endTime)
  \/ Truthy(node[n].version)

\* build_query that splits rid before it looks at the qualifiers.
build_query_split_first(n, fesquery) ==
  IF IsRaise(id(n)) THEN id(n)
  ELSE IF HasQualifier(n) THEN Raise("NotImplementedError")
  ELSE Q(id(n))

\* build_query that filters on the whole rid.
build_query_whole_rid(n, fesquery) ==
  IF HasQualifier(n) THEN Raise("NotImplementedError")
  ELSE IF IsRaise(id(n)) THEN id(n)
  ELSE Q(PyStr(node[n].rid))

\* What build_query(fesquery) returns or raises.
build_query_result(n, fesquery) ==
  IF HasQualifier(n) THEN Raise("NotImplementedError")
  ELSE IF IsRaise(id(n)) THEN id(n)
  ELSE Q(id(n))

\* build_query that drops the qualifiers it does not support.
build_query_clearing(n, fesquery) ==
  /\ Exists(n)
  /\ Len(built[n]) < MaxCalls
  /\ built' = [built EXCEPT ![n] = Append(@, build_query_result(n, fesquery))]
  /\ fesq' = [fesq EXCEPT ![n] = fesquery]
  /\ cache' = IF HasQualifier(n) THEN cache
              ELSE [cache EXCEPT ![n] = rid_parts_store(n)]
  /\ node' = [node EXCEPT ![n] = ResourceId(@.rid, None, None, None)]
  /\ UNCHANGED <<element, ctor, got_type_name, got_id>>

\* One call of build_query: self.id is evaluated (and _rid_parts memoized)
\* only when the qualifier check did not raise.
build_query(n, fesquery) ==
  /\ Exists(n)
  /\ Len(built[n]) < MaxCalls
  /\ built' = [built EXCEPT ![n] = Append(@, build_query_result(n, fesquery))]
  /\ fesq' = [fesq EXCEPT ![n] = fesquery]
  /\ cache' = IF HasQualifier(n) THEN cache
              ELSE [cache EXCEPT ![n] = rid_parts_store(n)]
  /\ UNCHANGED <<element, ctor, node, got_type_name, got_id>>

\* ----------------------------------------------------------- specifications

\* One ResourceId: constructed from its fields or from an XML element, then
\* compiled and read any number of times, in any order.
Next ==
  \/ /\ ctor[1] = NotConstructed
     /\ \E rid \in Rids, version \in VersionSpecs,
           startTime \in OptTimes, endTime \in OptTimes :
          new(1, rid, version, startTime, endTime)
  \/ /\ ctor[1] = NotConstructed
     /\ \E el \in Elements : from_xml(1, el)
  \/ \E fesquery \in FesQueries : build_query(1, fesquery)
  \/ read_type_name(1)
  \/ read_id(1)

Spec == Init /\ [][Next]_vars

\* Two ResourceIds without qualifiers, each compiled with either context.
PairNext ==
  \/ \E n \in Insts :
       /\ ctor[n] = NotConstructed
       /\ \E rid \in PairRids : new(n, rid, None, None, None)
  \/ \E n \in Insts, fesquery \in FesQueries : build_query(n, fesquery)

SpecPair == Init /\ [][PairNext]_vars

\* ------------------------------------------------------------------ claims

DotFree(s) == \A i \in 1..Len(s) : s[i] # "."

HasDot(s) == \E i \in 1..Len(s) : s[i] = "."

\* s is t, one ".", k, and k holds no further ".".
IsLastDotSplit(s, t, k) == s = t \o <<".">> \o k /\ DotFree(k)

\* version, startTime and endTime are all None.
Unversioned(n) ==
  /\ node[n].version = None
  /\ node[n].startTime = None
  /\ node[n].endTime = None

NotImplemented == Raise("NotImplementedError")

\* C1: for a rid of the form <Type>.<key> with exactly one "." and no
\* qualifier set, every build_query call returns Q(pk = "<key>") with the
\* key as a string, and type_name reads "<Type>".
C1_PkEquality ==
  (Exists(1) /\ Unversioned(1)) =>
    \A i \in 1..Len(node[1].rid) :
      LET t == SubSeq(node[1].rid, 1, i - 1)
          k == SubSeq(node[1].rid, i + 1, Len(node[1].rid))
      IN  (node[1].rid[i] = "." /\ DotFree(t) /\ DotFree(k)) =>
            /\ \A j \in 1..Len(built[1]) : built[1][j] = Q(PyStr(k))
            /\ got_type_name[1] # Unread => got_type_name[1] = PyStr(t)

C1_Witness ==
  /\ Exists(1) /\ Unversioned(1)
  /\ node[1].rid = <<"a", "b", ".", "a">>
  /\ Len(built[1]) >= 1
  /\ built[1][1] = Q(PyStr(<<"a">>))
  /\ got_type_name[1] = PyStr(<<"a", "b">>)

\* C2: for a rid without "." and no qualifier set, build_query fails with
\* the malformed-filter error and nothing else, and type_name never yields
\* the whole rid.
C2_MalformedFilter ==
  (Exists(1) /\ Unversioned(1) /\ DotFree(node[1].rid)) =>
    /\ \A j \in 1..Len(built[1]) : built[1][j] = Raise("MalformedFilterError")
    /\ got_type_name[1] # PyStr(node[1].rid)

\* C3: when version (an integer, a timestamp or a token), startTime or
\* endTime is not None, build_query fails with the unsupported-feature
\* error, whatever rid is.
C3_QualifierUnsupported ==
  ( /\ Exists(1)
    /\ node[1].version.kind \in {"None", "int", "datetime", "VersionActionTokens"}
    /\ ~Unversioned(1) ) =>
    \A j \in 1..Len(built[1]) : built[1][j] = NotImplemented

\* C4: for an element with a non-empty version attribute or a valid
\* startTime/endTime attribute, from_xml followed by build_query ends in
\* the unsupported-feature error.
C4_QualifierNeverIgnored ==
  ( /\ ctor[1] = Constructed("from_xml")
    /\ \/ (element[1].version.kind = "attr" /\ element[1].version.s # <<>>)
       \/ (element[1].startTime.kind = "attr" /\ IsIsoDatetime(element[1].startTime.s))
       \/ (element[1].endTime.kind = "attr" /\ IsIsoDatetime(element[1].endTime.s)) ) =>
    \A j \in 1..Len(built[1]) : built[1][j] = NotImplemented

\* C5: for a node made by from_xml from an element with only a rid
\* attribute, all build_query calls give the same outcome, the first one
\* included, however they are interleaved with reads of type_name and id.
C5_Idempotent ==
  ( /\ ctor[1] = Constructed("from_xml")
    /\ element[1].version = Absent
    /\ element[1].startTime = Absent
    /\ element[1].endTime = Absent ) =>
    \A i, j \in 1..Len(built[1]) : built[1][i] = built[1][j]

C5_Witness ==
  /\ ctor[1] = Constructed("from_xml")
  /\ element[1] = [kind |-> "element", rid |-> Attr(<<"a", "b", ".", "a">>),
                   version |-> Absent, startTime |-> Absent, endTime |-> Absent]
  /\ Len(built[1]) = MaxCalls
  /\ built[1][1] = Q(PyStr(<<"a">>))
  /\ built[1][MaxCalls] = Q(PyStr(<<"a">>))
  /\ got_type_name[1] # Unread
  /\ got_id[1] # Unread

\* C6: from_xml on an element without a rid attribute fails with the
\* missing-attribute error, whatever the other attributes are, and no node
\* is produced.
C6_MissingRid ==
  (element[1].kind = "element" /\ element[1].rid = Absent) =>
    /\ ctor[1] = Raise("MissingAttributeError")
    /\ node[1] = NoNode

C6_Witness ==
  /\ element[1].kind = "element"
  /\ element[1].rid = Absent
  /\ element[1].version = Attr(<<"7">>)
  /\ element[1].startTime = Attr(NotADateStr)
  /\ ctor[1] = Raise("MissingAttributeError")

\* Some qualifier is set: version, startTime or endTime is not None.
QualifierSet(n) == ~Unversioned(n)

C8_SplitAtLastDot ==
  (Exists(1) /\ HasDot(node[1].rid)) =>
    LET s == node[1].rid
    IN  /\ got_type_name[1] # Unread =>
             LET t == got_type_name[1].s
             IN  /\ Len(t) < Len(s)
                 /\ IsLastDotSplit(s, t, SubSeq(s, Len(t) + 2, Len(s)))
        /\ got_id[1] # Unread =>
             /\ got_id[1].kind = "str"
             /\ Len(got_id[1].s) < Len(s)
             /\ IsLastDotSplit(s, SubSeq(s, 1, Len(s) - Len(got_id[1].s) - 1), got_id[1].s)
        /\ (got_type_name[1] # Unread /\ got_id[1] # Unread) =>
             got_type_name[1].s \o <<".">> \o got_id[1].s = s

C8_Witness ==
  /\ Exists(1)
  /\ node[1].rid = <<"a", ".", ".", "b">>
  /\ got_type_name[1] = PyStr(<<"a", ".">>)
  /\ got_id[1] = PyStr(<<"b">>)

\* The part of s after its last ".".
AfterLastDot(s) ==
  CHOOSE k \in {SubSeq(s, i + 1, Len(s)) : i \in 1..Len(s)} :
    DotFree(k) /\ s[Len(s) - Len(k)] = "."

\* C9: two nodes without qualifiers whose rids have the same id part yield
\* equal predicates, whatever their type names and whatever fesquery each
\* call was given.
C9_OnlyIdPart ==
  \A m, n \in Insts :
    ( /\ Exists(m) /\ Exists(n)
      /\ HasDot(node[m].rid) /\ HasDot(node[n].rid)
      /\ AfterLastDot(node[m].rid) = AfterLastDot(node[n].rid) ) =>
      \A i \in 1..Len(built[m]), j \in 1..Len(built[n]) :
        /\ built[m][i] = built[n][j]
        /\ built[m][i].kind = "Q"

C9_Witness ==
  /\ Exists(1) /\ Exists(2)
  /\ node[1].rid = <<"a", ".", "a">>
  /\ node[2].rid = <<"b", ".", "a">>
  /\ fesq[1] = "q1" /\ fesq[2] = "q2"
  /\ built[1] # <<>> /\ built[2] # <<>>
  /\ built[1][1] = built[2][1]

\* type_name and id as they follow from the node's current rid.
DerivedFresh(n) ==
  /\ cache[n].kind = "list" => cache[n].parts = rsplit(node[n].rid)
  /\ got_type_name[n] # Unread => got_type_name[n] = PyStr(rsplit(node[n].rid)[1])
  /\ got_id[n] # Unread =>
       IF HasDot(node[n].rid) THEN got_id[n] = PyStr(rsplit(node[n].rid)[2])
       ELSE got_id[n] = Raise("IndexError")

====
